---------------------------- MODULE Spec2Model ----------------------------
(***************************************************************************)
(* Rolling-hash engines (Bup, Gear), the generic mask chunker and FastCDC  *)
(* of the rollsum crate, as state machines over small inputs.              *)
(*                                                                         *)
(* A u64 is a tuple of four 16-bit limbs, least significant first, so that *)
(* the 64-bit wraparound of the Gear digest is kept exactly; a u32 (the    *)
(* Bup digest) is a tuple of two.                                          *)
(*                                                                         *)
(* CHOOSE r \in {F(x) : x \in {E}} : TRUE is F(E): it binds x to the value  *)
(* of E, as a let binding does, and has TLC evaluate E once.               *)
(***************************************************************************)
EXTENDS Integers, Sequences, FiniteSets, TLC

VARIABLES
    kind,       \* the type under test: "bup", "gear" or "fastcdc"
    eng,        \* the engine, or the chunker
    fresh,      \* an engine constructed anew at the last reset of eng, then fed alike;
                \* for a chunker, the chunker as it was constructed
    adv,        \* eng as it was before its last roll or find_chunk_edge_cond, fed the
                \* same buffer with roll_byte, and then every byte eng was fed since;
                \* for FastCDC fed in slices, the chunks for_each_chunk_end cuts from
                \* the whole input with a chunker constructed alike
    last,       \* the last call on eng other than roll_byte, and its result
    pc,         \* "new" after construction, "mid" after one call, "done" after two
    fed,        \* in the window specification, the bytes fed to eng since its
                \* construction, in order; for a chunker, the whole input
    rest,       \* for a chunker, the input not yet consumed
    chunks      \* for a chunker, the chunks cut so far, in order

vars == <<kind, eng, fresh, adv, last, pc, fed, rest, chunks>>

---------------------------------------------------------------------------
(* Bounds of the model *)

\* Bup's const generic WINDOW_SIZE (DEFAULT_WINDOW_SIZE is 64)
WINDOW_SIZE == 3

\* every byte sequence up to this length is an input buffer
MaxShort == 1

\* the long input buffers hold a run of the engine's window size - 1 to its window
\* size + MaxOver equal bytes
MaxOver == 0

\* roll_byte calls that follow the second call
MaxMore == 1

\* the longest input of a RollingHashChunker
MaxBuf == 6

\* count_bits is called with chunk_bits from 0 to this
MaxCountBits == 33

\* new_with_chunk_bits is called with chunk_bits from 0 to this
MaxChunkBits == 33

---------------------------------------------------------------------------
(* Program constants *)

CHAR_OFFSET == 31

GEAR_WINDOW_SIZE == 64

\* the width of Bup's Digest, a u32
DIGEST_BITS == 32

\* the byte values fed to the engines
Bytes == {0, 1, 255}

---------------------------------------------------------------------------
(* Option<usize> *)

None == [some |-> FALSE, val |-> 0]

Some(n) == [some |-> TRUE, val |-> n]

---------------------------------------------------------------------------
(* u64 arithmetic on 16-bit limbs *)

Limb == 2 ^ 16

\* the top bit of a limb
TopBit == 2 ^ 15

U64(h3, h2, h1, h0) == <<h0, h1, h2, h3>>

Zero64 == <<0, 0, 0, 0>>

One64 == <<1, 0, 0, 0>>

\* x << 1 on u64 (the top bit is shifted out)
Shl1(x) ==
    <<(2 * x[1]) % Limb,
      ((2 * x[2]) % Limb) + (x[1] \div TopBit),
      ((2 * x[3]) % Limb) + (x[2] \div TopBit),
      ((2 * x[4]) % Limb) + (x[3] \div TopBit)>>

\* x >> 1 on u64
Shr1(x) ==
    <<(x[1] \div 2) + ((x[2] % 2) * TopBit),
      (x[2] \div 2) + ((x[3] % 2) * TopBit),
      (x[3] \div 2) + ((x[4] % 2) * TopBit),
      x[4] \div 2>>

\* u64::wrapping_add
WrappingAdd(x, y) ==
    LET s1 == x[1] + y[1]
        s2 == x[2] + y[2] + (s1 \div Limb)
        s3 == x[3] + y[3] + (s2 \div Limb)
        s4 == x[4] + y[4] + (s3 \div Limb)
    IN  <<s1 % Limb, s2 % Limb, s3 % Limb, s4 % Limb>>

\* a * b for limbs a and b, as <<low limb, high limb>>
MulLimb(a, b) ==
    LET t0 == (a % 256) * b
        t1 == (a \div 256) * b
        s  == t0 + ((t1 % 256) * 256)
    IN  <<s % Limb, (s \div Limb) + (t1 \div 256)>>

\* u64::wrapping_mul: the long multiplication of the limbs of x and y, what lies
\* above the fourth limb dropped
WrappingMul(x, y) ==
    LET P(i, j) == MulLimb(x[i], y[j])
        c1 == P(1, 1)[1]
        c2 == P(1, 1)[2] + P(1, 2)[1] + P(2, 1)[1]
        c3 == P(1, 2)[2] + P(2, 1)[2] + P(1, 3)[1] + P(2, 2)[1] + P(3, 1)[1]
              + (c2 \div Limb)
        c4 == P(1, 3)[2] + P(2, 2)[2] + P(3, 1)[2] + P(1, 4)[1] + P(2, 3)[1]
              + P(3, 2)[1] + P(4, 1)[1] + (c3 \div Limb)
    IN  <<c1, c2 % Limb, c3 % Limb, c4 % Limb>>

RECURSIVE BitAnd(_, _)
\* a & b on non-negative integers
BitAnd(a, b) ==
    IF a = 0 \/ b = 0 THEN 0
    ELSE ((a % 2) * (b % 2)) + (2 * BitAnd(a \div 2, b \div 2))

RECURSIVE BitOr(_, _)
\* a | b on non-negative integers
BitOr(a, b) ==
    IF a = 0 THEN b
    ELSE IF b = 0 THEN a
    ELSE (IF a % 2 = 1 \/ b % 2 = 1 THEN 1 ELSE 0) + (2 * BitOr(a \div 2, b \div 2))

\* a & b on u32
And32(x, y) == <<BitAnd(x[1], y[1]), BitAnd(x[2], y[2])>>

\* a & b on u64
And64(x, y) ==
    <<BitAnd(x[1], y[1]), BitAnd(x[2], y[2]), BitAnd(x[3], y[3]), BitAnd(x[4], y[4])>>

\* a | b on u64
Or64(x, y) ==
    <<BitOr(x[1], y[1]), BitOr(x[2], y[2]), BitOr(x[3], y[3]), BitOr(x[4], y[4])>>

RECURSIVE PopCount(_)
PopCount(a) == IF a = 0 THEN 0 ELSE (a % 2) + PopCount(a \div 2)

\* u64::count_ones
CountOnes(x) == PopCount(x[1]) + PopCount(x[2]) + PopCount(x[3]) + PopCount(x[4])

\* x rotated left by q limbs, q in 0..3
RotateLimbs(x, q) ==
    <<x[((4 - q) % 4) + 1], x[((5 - q) % 4) + 1], x[((6 - q) % 4) + 1],
      x[((7 - q) % 4) + 1]>>

\* x rotated left by n bits, n in 0..15
RotateBits(x, n) ==
    LET lo(a) == (a * (2 ^ n)) % Limb
        hi(a) == a \div (2 ^ (16 - n))
    IN  <<lo(x[1]) + hi(x[4]), lo(x[2]) + hi(x[1]), lo(x[3]) + hi(x[2]),
          lo(x[4]) + hi(x[3])>>

\* u64::rotate_left(x, r)
RotateLeft(x, r) == RotateBits(RotateLimbs(x, (r % 64) \div 16), r % 16)

---------------------------------------------------------------------------
(* Gear *)

\* the table G of _gear_rand.rs, at the byte values of the model
G(b) ==
    CASE b = 0   -> U64(\h2013, \hFEA7, \h1DD2, \h4180)
      [] b = 1   -> U64(\hE662, \hA3EB, \h3AC9, \hC2FD)
      [] b = 255 -> U64(\h8B08, \h31AB, \h7C0C, \h2BE4)

GearDefault == [kind |-> "gear", digest |-> Zero64]

\* roll_byte with the shift left out: no byte is ever shifted out of the digest
GearRollByteNoShift(e, b) == [e EXCEPT !.digest = WrappingAdd(e.digest, G(b))]

GearRollByte(e, b) == [e EXCEPT !.digest = WrappingAdd(Shl1(e.digest), G(b))]

GearDigest(e) == e.digest

GearReset(e) == [e EXCEPT !.digest = Zero64]

---------------------------------------------------------------------------
(* Bup *)

BupDefault ==
    [kind   |-> "bup",
     s1     |-> WINDOW_SIZE * CHAR_OFFSET,
     s2     |-> WINDOW_SIZE * (WINDOW_SIZE - 1) * CHAR_OFFSET,
     window |-> [i \in 1..WINDOW_SIZE |-> 0],
     wofs   |-> 0]

\* add with CHAR_OFFSET left out of what s2 drops
BupAddNoOffset(e, drop, add) ==
    LET s1 == e.s1 + add - drop
    IN  [e EXCEPT !.s1 = s1,
                  !.s2 = e.s2 + s1 - WINDOW_SIZE * drop]

\* Bup::add(drop, add); s1 and s2 are usize and stay far from its ends
BupAdd(e, drop, add) ==
    LET s1 == e.s1 + add - drop
    IN  [e EXCEPT !.s1 = s1,
                  !.s2 = e.s2 + s1 - WINDOW_SIZE * (drop + CHAR_OFFSET)]

\* roll_byte with the cursor advanced and not wrapped
BupRollByteNoWrap(e, newch) ==
    LET prevch == e.window[e.wofs + 1]
        a      == BupAdd(e, prevch, newch)
    IN  [a EXCEPT !.window[e.wofs + 1] = newch,
                  !.wofs = e.wofs + 1]

\* Bup::roll_byte
BupRollByte(e, newch) ==
    LET prevch == e.window[e.wofs + 1]
        a      == BupAdd(e, prevch, newch)
    IN  [a EXCEPT !.window[e.wofs + 1] = newch,
                  !.wofs = (e.wofs + 1) % WINDOW_SIZE]

\* ((s1 as u32) << 16) | ((s2 as u32) & 0xffff), as the u32 of two limbs
BupDigest(e) == <<e.s2 % Limb, e.s1 % Limb>>

\* reset of the sums and the cursor alone, the window kept
BupResetSums(e) == [e EXCEPT !.s1 = BupDefault.s1, !.s2 = BupDefault.s2, !.wofs = 0]

BupReset(e) == BupDefault

---------------------------------------------------------------------------
(* bup::count_bits, on a u32 digest <<low limb, high limb>> *)

U32(h1, h0) == <<h0, h1>>

\* x >> n on u32, n in 0..31
Shr32(x, n) ==
    IF n >= 16 THEN <<x[2] \div (2 ^ (n - 16)), 0>>
    ELSE <<(x[1] \div (2 ^ n)) + ((x[2] % (2 ^ n)) * (2 ^ (16 - n))),
           x[2] \div (2 ^ n)>>

RECURSIVE TrailingOnesInt(_)
TrailingOnesInt(a) == IF a % 2 = 1 THEN 1 + TrailingOnesInt(a \div 2) ELSE 0

\* u32::trailing_ones
TrailingOnes32(x) ==
    IF x[1] = Limb - 1 THEN 16 + TrailingOnesInt(x[2]) ELSE TrailingOnesInt(x[1])

\* a call that panicked, and a call that returned n
Panicked == [panic |-> TRUE, val |-> 0]
Returned(n) == [panic |-> FALSE, val |-> n]

\* count_bits without the second shift
CountBitsNoSkip(chunk_bits, digest, overflow_checks) ==
    IF chunk_bits >= DIGEST_BITS /\ overflow_checks THEN Panicked
    ELSE Returned(TrailingOnes32(Shr32(digest, chunk_bits % DIGEST_BITS)) + chunk_bits)

\* count_bits.  digest >> chunk_bits with chunk_bits >= 32 overflows the shift: a
\* build with overflow checks (debug) panics, one without (release) shifts by
\* chunk_bits % 32.
count_bits(chunk_bits, digest, overflow_checks) ==
    IF chunk_bits >= DIGEST_BITS /\ overflow_checks THEN Panicked
    ELSE Returned(TrailingOnes32(Shr32(Shr32(digest, chunk_bits % DIGEST_BITS), 1))
                  + chunk_bits)

---------------------------------------------------------------------------
(* trait RollingHash *)

Default(k) == IF k = "bup" THEN BupDefault ELSE GearDefault

RollByte(e, b) == IF e.kind = "bup" THEN BupRollByte(e, b) ELSE GearRollByte(e, b)

Digest(e) == IF e.kind = "bup" THEN BupDigest(e) ELSE GearDigest(e)

Reset(e) == IF e.kind = "bup" THEN BupReset(e) ELSE GearReset(e)

WindowSize(e) == IF e.kind = "bup" THEN WINDOW_SIZE ELSE GEAR_WINDOW_SIZE

RECURSIVE RollRange(_, _, _, _)
\* roll_byte over buf[lo..hi] (counted from 1), in order.  The range is halved only
\* to keep TLC's evaluation shallow: l is the engine after the first half.
RollRange(e, buf, lo, hi) ==
    IF lo > hi THEN e
    ELSE IF lo = hi THEN RollByte(e, buf[lo])
    ELSE CHOOSE r \in {RollRange(l, buf, ((lo + hi) \div 2) + 1, hi) :
                          l \in {RollRange(e, buf, lo, (lo + hi) \div 2)}} : TRUE

\* the trait's default roll: roll_byte over each byte, in order
RollDefault(e, buf) == RollRange(e, buf, 1, Len(buf))

\* data.windows(window_size).next().unwrap_or(data): the first window for the last
FirstWindow(window_size, data) ==
    IF Len(data) >= window_size THEN SubSeq(data, 1, window_size) ELSE data

\* data.windows(window_size).last().unwrap_or(data)
LastWindow(window_size, data) ==
    IF Len(data) >= window_size
    THEN SubSeq(data, Len(data) - window_size + 1, Len(data))
    ELSE data

roll_windowed(e, window_size, data) == RollDefault(e, LastWindow(window_size, data))

\* Bup::roll and Gear::roll
Roll(e, buf) == roll_windowed(e, WindowSize(e), buf)

\* a predicate of the digest, digest & mask == val, as the tests and chunkers pass
Cond(c, e) ==
    IF e.kind = "bup" THEN And32(Digest(e), c.mask) = c.val
    ELSE And64(Digest(e), c.mask) = c.val

RECURSIVE FindRangeFromZero(_, _, _, _, _)
\* the loop returning Some(i) for Some(i + 1): the index of the byte, from 0
FindRangeFromZero(e, buf, lo, hi, c) ==
    IF lo > hi THEN [eng |-> e, ret |-> None]
    ELSE IF lo = hi
    THEN LET e1 == RollByte(e, buf[lo])
         IN  [eng |-> e1, ret |-> IF Cond(c, e1) THEN Some(lo - 1) ELSE None]
    ELSE LET mid == (lo + hi) \div 2
             l   == FindRangeFromZero(e, buf, lo, mid, c)
         IN  IF l.ret.some THEN l ELSE FindRangeFromZero(l.eng, buf, mid + 1, hi, c)

RECURSIVE FindRange(_, _, _, _, _)
\* the loop of the trait's find_chunk_edge_cond over buf[lo..hi] (counted from 1):
\* roll_byte, then cond, and stop at the first byte where cond holds
FindRange(e, buf, lo, hi, c) ==
    IF lo > hi THEN [eng |-> e, ret |-> None]
    ELSE IF lo = hi
    THEN CHOOSE r \in {[eng |-> e1, ret |-> IF Cond(c, e1) THEN Some(lo) ELSE None] :
                          e1 \in {RollByte(e, buf[lo])}} : TRUE
    ELSE CHOOSE r \in {IF l.ret.some THEN l
                       ELSE FindRange(l.eng, buf, ((lo + hi) \div 2) + 1, hi, c) :
                          l \in {FindRange(e, buf, lo, (lo + hi) \div 2, c)}} : TRUE

\* RollingHash::find_chunk_edge_cond, the trait default (Gear uses it)
FindChunkEdgeCondDefault(e, buf, c) == FindRange(e, buf, 1, Len(buf), c)

RECURSIVE BupFusedRangeDropSecond(_, _, _, _, _)
\* the fused loop dropping the second byte of each window of WINDOW_SIZE + 1 bytes,
\* not its first
BupFusedRangeDropSecond(e, buf, lo, hi, c) ==
    IF lo > hi THEN [eng |-> e, ret |-> None]
    ELSE LET e1 == BupAdd(e, buf[lo + 2], buf[lo + WINDOW_SIZE + 1])
         IN  IF Cond(c, e1) THEN [eng |-> e1, ret |-> Some(lo)]
             ELSE BupFusedRangeDropSecond(e1, buf, lo + 1, hi, c)

RECURSIVE BupFusedRange(_, _, _, _, _)
\* the loop over buf.windows(WINDOW_SIZE + 1) of Bup::find_chunk_edge_cond, for the
\* windows lo..hi: window i (from 0) is buf[i .. i + WINDOW_SIZE], buf counted from 0.
\* The result holds the window index of the match.
BupFusedRange(e, buf, lo, hi, c) ==
    IF lo > hi THEN [eng |-> e, ret |-> None]
    ELSE IF lo = hi
    THEN CHOOSE r \in {[eng |-> e1, ret |-> IF Cond(c, e1) THEN Some(lo) ELSE None] :
                          e1 \in {BupAdd(e, buf[lo + 1], buf[lo + WINDOW_SIZE + 1])}} :
             TRUE
    ELSE CHOOSE r \in {IF l.ret.some THEN l
                       ELSE BupFusedRange(l.eng, buf, ((lo + hi) \div 2) + 1, hi, c) :
                          l \in {BupFusedRange(e, buf, lo, (lo + hi) \div 2, c)}} : TRUE

\* Bup::find_chunk_edge_cond with wofs left where it was when the last window is
\* copied back
BupFindKeepWofs(e, buf, c) ==
    LET first_window == IF Len(buf) >= WINDOW_SIZE THEN WINDOW_SIZE ELSE Len(buf)
        r == FindRange(e, buf, 1, first_window, c)
    IN  IF r.ret.some THEN r
        ELSE IF Len(buf) > WINDOW_SIZE
        THEN LET f == BupFusedRange(r.eng, buf, 0, Len(buf) - WINDOW_SIZE - 1, c)
                 i == f.ret.val
             IN  IF f.ret.some
                 THEN [eng |-> [f.eng EXCEPT
                                  !.wofs = 0,
                                  !.window = SubSeq(buf, i + 2, i + WINDOW_SIZE + 1)],
                       ret |-> Some(i + WINDOW_SIZE + 1)]
                 ELSE [eng |-> [f.eng EXCEPT
                                  !.window = SubSeq(buf, Len(buf) - WINDOW_SIZE + 1,
                                                    Len(buf))],
                       ret |-> None]
        ELSE r

\* Bup::find_chunk_edge_cond with the window left as the first window filled it when
\* the fused loop finds an edge
BupFindStaleWindow(e, buf, c) ==
    LET first_window == IF Len(buf) >= WINDOW_SIZE THEN WINDOW_SIZE ELSE Len(buf)
        r == FindRange(e, buf, 1, first_window, c)
    IN  IF r.ret.some THEN r
        ELSE IF Len(buf) > WINDOW_SIZE
        THEN LET f == BupFusedRange(r.eng, buf, 0, Len(buf) - WINDOW_SIZE - 1, c)
                 i == f.ret.val
             IN  IF f.ret.some
                 THEN [eng |-> [f.eng EXCEPT !.wofs = 0],
                       ret |-> Some(i + WINDOW_SIZE + 1)]
                 ELSE [eng |-> [f.eng EXCEPT
                                  !.wofs = 0,
                                  !.window = SubSeq(buf, Len(buf) - WINDOW_SIZE + 1,
                                                    Len(buf))],
                       ret |-> None]
        ELSE r

\* Bup::find_chunk_edge_cond with the cursor set to 0 whenever no edge is found,
\* whatever the length of the buffer
BupFindRewindAlways(e, buf, c) ==
    LET first_window == IF Len(buf) >= WINDOW_SIZE THEN WINDOW_SIZE ELSE Len(buf)
        r == FindRange(e, buf, 1, first_window, c)
    IN  IF r.ret.some THEN r
        ELSE IF Len(buf) > WINDOW_SIZE
        THEN LET f == BupFusedRange(r.eng, buf, 0, Len(buf) - WINDOW_SIZE - 1, c)
                 i == f.ret.val
             IN  IF f.ret.some
                 THEN [eng |-> [f.eng EXCEPT
                                  !.wofs = 0,
                                  !.window = SubSeq(buf, i + 2, i + WINDOW_SIZE + 1)],
                       ret |-> Some(i + WINDOW_SIZE + 1)]
                 ELSE [eng |-> [f.eng EXCEPT
                                  !.wofs = 0,
                                  !.window = SubSeq(buf, Len(buf) - WINDOW_SIZE + 1,
                                                    Len(buf))],
                       ret |-> None]
        ELSE [eng |-> [r.eng EXCEPT !.wofs = 0], ret |-> None]

\* Bup::find_chunk_edge_cond: r is what the loop over the first window comes to, f
\* what the loop over buf.windows(WINDOW_SIZE + 1) comes to
BupFindChunkEdgeCond(e, buf, c) ==
    CHOOSE found \in
        {IF r.ret.some THEN r
         ELSE IF Len(buf) > WINDOW_SIZE
         THEN CHOOSE fused \in
                  {IF f.ret.some
                   THEN [eng |-> [f.eng EXCEPT
                                    !.wofs = 0,
                                    !.window = SubSeq(buf, f.ret.val + 2,
                                                      f.ret.val + WINDOW_SIZE + 1)],
                         ret |-> Some(f.ret.val + WINDOW_SIZE + 1)]
                   ELSE \* no chunk edge found: copy the last window back
                        [eng |-> [f.eng EXCEPT
                                    !.wofs = 0,
                                    !.window = SubSeq(buf, Len(buf) - WINDOW_SIZE + 1,
                                                      Len(buf))],
                         ret |-> None] :
                      f \in {BupFusedRange(r.eng, buf, 0, Len(buf) - WINDOW_SIZE - 1,
                                            c)}} : TRUE
         ELSE r :
            r \in {FindRange(e, buf, 1,
                             IF Len(buf) >= WINDOW_SIZE THEN WINDOW_SIZE ELSE Len(buf),
                             c)}} : TRUE

FindChunkEdgeCond(e, buf, c) ==
    IF e.kind = "bup" THEN BupFindChunkEdgeCond(e, buf, c)
    ELSE FindChunkEdgeCondDefault(e, buf, c)

---------------------------------------------------------------------------
(* RollingHashChunker *)

\* RollingHashChunker::with_mask(rh, mask)
with_mask(rh, mask) == [kind |-> "rhc", rh |-> rh, mask |-> mask]

\* RH::Digest::default(): zero, as a value of the engine's digest type
DigestDefault(e) == IF e.kind = "bup" THEN <<0, 0>> ELSE Zero64

\* chunk_end returning the offset of the byte at which the predicate held
RollingHashChunkerEdgeAtByte(c, buf) ==
    LET res == FindChunkEdgeCond(c.rh, buf,
                                 [mask |-> c.mask, val |-> DigestDefault(c.rh)])
    IN  IF res.ret.some
        THEN [eng |-> [c EXCEPT !.rh = Reset(res.eng)], ret |-> Some(res.ret.val - 1)]
        ELSE [eng |-> [c EXCEPT !.rh = res.eng], ret |-> res.ret]

\* chunk_end with the engine left as find_chunk_edge_cond left it
RollingHashChunkerNoReset(c, buf) ==
    LET res == FindChunkEdgeCond(c.rh, buf,
                                 [mask |-> c.mask, val |-> DigestDefault(c.rh)])
    IN  [eng |-> [c EXCEPT !.rh = res.eng], ret |-> res.ret]

\* RollingHashChunker::chunk_end
RollingHashChunkerChunkEnd(c, buf) ==
    CHOOSE r \in {IF res.ret.some
                  THEN [eng |-> [c EXCEPT !.rh = Reset(res.eng)], ret |-> res.ret]
                  ELSE [eng |-> [c EXCEPT !.rh = res.eng], ret |-> res.ret] :
                     res \in {FindChunkEdgeCond(c.rh, buf,
                                                [mask |-> c.mask,
                                                 val  |-> DigestDefault(c.rh)])}} : TRUE

---------------------------------------------------------------------------
(* FastCDC *)

SPREAD_BITS == 3

\* the multiplier a and the increment c of get_masks
LcgA == U64(\h5851, \hF42D, \h4C95, \h7F2D)

LcgC == U64(\h1405, \h7B7E, \hF767, \h814F)

Min(a, b) == IF a <= b THEN a ELSE b

\* a small number as a u32
U32Of(n) == <<n % Limb, n \div Limb>>

\* a u32 operation in a build with overflow checks or without: it panics, or
\* returns val, the wrapped result
Wrapped(overflowed, val, overflow_checks) ==
    [panic |-> overflowed /\ overflow_checks, val |-> val]

\* x - y on u32
Sub32(x, y, overflow_checks) ==
    LET d1 == x[1] - y[1]
        d2 == x[2] - y[2] - (IF d1 < 0 THEN 1 ELSE 0)
    IN  Wrapped(d2 < 0, <<d1 % Limb, d2 % Limb>>, overflow_checks)

\* x + y on u32
Add32(x, y, overflow_checks) ==
    LET s1 == x[1] + y[1]
        s2 == x[2] + y[2] + (s1 \div Limb)
    IN  Wrapped(s2 >= Limb, <<s1 % Limb, s2 % Limb>>, overflow_checks)

\* 2^n as a u64, n in 0..63
Pow2U64(n) == [i \in 1..4 |-> IF i = (n \div 16) + 1 THEN 2 ^ (n % 16) ELSE 0]

\* an i32 cast to u64, the i32 given by its 32 bits: the sign bit fills the high half
SignExtend(x) ==
    IF x[2] >= 2 ^ 15 THEN <<x[1], x[2], Limb - 1, Limb - 1>> ELSE <<x[1], x[2], 0, 0>>

\* (1 << n) as u64 for a u32 n: the literal is an i32, a shift by 32 or more
\* overflows, and without overflow checks the amount is taken modulo 32
ShlI32(n, overflow_checks) ==
    LET p == Pow2U64(n[1] % 32)
    IN  Wrapped(n[2] # 0 \/ n[1] >= 32, SignExtend(<<p[1], p[2]>>), overflow_checks)

\* 1 << n for a u32 n, the literal a usize of 64 bits
ShlUsize(n, overflow_checks) ==
    Wrapped(n[2] # 0 \/ n[1] >= 64, Pow2U64(n[1] % 64), overflow_checks)

\* x >= y on u64
Geq64(x, y) ==
    \/ x = y
    \/ \E i \in 1..4 : x[i] > y[i] /\ \A j \in (i + 1)..4 : x[j] = y[j]

RECURSIVE PowerOfTwoFrom(_, _)
PowerOfTwoFrom(p, x) ==
    IF p = 63 \/ Geq64(Pow2U64(p), x) THEN Pow2U64(p) ELSE PowerOfTwoFrom(p + 1, x)

\* usize::next_power_of_two, of x up to 2^63
NextPowerOfTwo(x) == PowerOfTwoFrom(0, x)

\* the body of the loops of get_masks: v = v * a + c, wrapping, and
\* mask = (mask | 1).rotate_left(v as u32 & 0x3f)
MaskStep(st) ==
    LET v1 == WrappingAdd(WrappingMul(st.v, LcgA), LcgC)
    IN  [mask |-> RotateLeft(Or64(st.mask, One64), v1[1] % 64), v |-> v1]

RECURSIVE MaskPasses(_, _, _)
\* up to 2^k passes of while mask.count_ones() < n { ... }, on st = (mask, v)
MaskPasses(st, n, k) ==
    IF CountOnes(st.mask) >= n THEN st
    ELSE IF k = 0 THEN MaskStep(st)
    ELSE CHOOSE r \in {MaskPasses(st1, n, k - 1) : st1 \in {MaskPasses(st, n, k - 1)}} :
             TRUE

RECURSIVE MaskLoop(_, _)
\* while mask.count_ones() < n { ... }, on st = (mask, v), run in rounds of up to
\* 16 passes
MaskLoop(st, n) ==
    IF CountOnes(st.mask) < n
    THEN CHOOSE r \in {MaskLoop(st1, n) : st1 \in {MaskPasses(st, n, 4)}} : TRUE
    ELSE st

\* what get_masks and new_with_chunk_bits come to: "ok" with a value, "panic", or
\* "hang" for a loop that never ends
MasksOk(short, long) == [outcome |-> "ok", mask_short |-> short, mask_long |-> long]

NoMasks(outcome) == [outcome |-> outcome, mask_short |-> Zero64, mask_long |-> Zero64]

\* the two loops of get_masks, the second going on from the first
MaskLoops(long, short_bits) == MasksOk(MaskLoop(long, short_bits).mask, long.mask)

\* get_masks: (mask_short, mask_long).  bits - nc_level is a u32: below zero it
\* panics where overflow is checked and wraps to more than 64 where it is not, and a
\* loop whose bound is more than 64 ones never ends.
get_masks(avg_size, nc_level, seed, overflow_checks) ==
    LET bits == CountOnes(WrappingAdd(NextPowerOfTwo(avg_size),
                                      <<Limb - 1, Limb - 1, Limb - 1, Limb - 1>>))
    IN  IF bits = 13
        THEN MasksOk(U64(\h0003, \h5907, \h0353, \h0000),
                     U64(\h0000, \hD900, \h0353, \h0000))
        ELSE IF bits < nc_level
        THEN NoMasks(IF overflow_checks THEN "panic" ELSE "hang")
        ELSE IF bits + nc_level > 64 THEN NoMasks("hang")
        ELSE MaskLoops(MaskLoop([mask |-> Zero64, v |-> seed], bits - nc_level),
                       bits + nc_level)

\* a constructor that did not return
NoFastCDC(outcome) ==
    [outcome |-> outcome, mask_short |-> Zero64, mask_long |-> Zero64,
     min_size |-> Zero64, avg_size |-> Zero64, max_size |-> Zero64]

\* the sizes of new_with_chunk_bits, each (1 << n) as u64 with n a u32
NewWithSizes(masks, min_size, avg_size, max_size) ==
    IF min_size.panic \/ avg_size.panic \/ max_size.panic THEN NoFastCDC("panic")
    ELSE [outcome |-> "ok", mask_short |-> masks.mask_short,
          mask_long |-> masks.mask_long, min_size |-> min_size.val,
          avg_size |-> avg_size.val, max_size |-> max_size.val]

\* the shift amounts of new_with_chunk_bits: chunk_bits - SPREAD_BITS + 1 and
\* chunk_bits + SPREAD_BITS, on u32
NewWithShifts(masks, chunk_bits, min_sub, min_shift, max_shift, overflow_checks) ==
    IF masks.outcome # "ok" THEN NoFastCDC(masks.outcome)
    ELSE IF min_sub.panic \/ min_shift.panic \/ max_shift.panic THEN NoFastCDC("panic")
    ELSE NewWithSizes(masks, ShlI32(min_shift.val, overflow_checks),
                      ShlI32(chunk_bits, overflow_checks),
                      ShlI32(max_shift.val, overflow_checks))

\* new_with_chunk_bits with min_size = 1 << (chunk_bits - SPREAD_BITS)
NewWithMasksNoPlusOne(masks, chunk_bits, min_sub, overflow_checks) ==
    NewWithShifts(masks, chunk_bits, min_sub,
                  Add32(min_sub.val, U32Of(0), overflow_checks),
                  Add32(chunk_bits, U32Of(SPREAD_BITS), overflow_checks),
                  overflow_checks)

NewWithMasks(masks, chunk_bits, min_sub, overflow_checks) ==
    NewWithShifts(masks, chunk_bits, min_sub,
                  Add32(min_sub.val, U32Of(1), overflow_checks),
                  Add32(chunk_bits, U32Of(SPREAD_BITS), overflow_checks),
                  overflow_checks)

\* FastCDC::new_with_chunk_bits in a build with overflow checks or without, the
\* sizes as u64
NewWithChunkBits(chunk_bits, overflow_checks) ==
    IF ShlUsize(U32Of(chunk_bits), overflow_checks).panic THEN NoFastCDC("panic")
    ELSE NewWithMasks(get_masks(ShlUsize(U32Of(chunk_bits), overflow_checks).val, 2,
                                Zero64, overflow_checks),
                      U32Of(chunk_bits),
                      Sub32(U32Of(chunk_bits), U32Of(SPREAD_BITS), overflow_checks),
                      overflow_checks)

\* a u64 below 2^31 as a number
ToInt(x) == x[1] + (x[2] * Limb)

\* the chunker a constructor returned, its sizes as numbers
Chunker(r) ==
    [kind               |-> "fastcdc",
     current_chunk_size |-> 0,
     gear               |-> GearDefault,
     mask_short         |-> r.mask_short,
     mask_long          |-> r.mask_long,
     min_size           |-> ToInt(r.min_size),
     avg_size           |-> ToInt(r.avg_size),
     max_size           |-> ToInt(r.max_size)]

\* FastCDC::new_with_chunk_bits, in a build without overflow checks
new_with_chunk_bits(chunk_bits) == Chunker(NewWithChunkBits(chunk_bits, FALSE))

\* FastCDC::reset
FastCDCReset(c) == [c EXCEPT !.gear = GearReset(c.gear), !.current_chunk_size = 0]

\* the first bytes of a chunk rolled and not counted in current_chunk_size
SkipMinNoCount(c, left) ==
    IF c.current_chunk_size < c.min_size
    THEN LET roll_bytes == Min(c.min_size - c.current_chunk_size, Len(left))
         IN  [c    |-> [c EXCEPT !.gear = Roll(c.gear, SubSeq(left, 1, roll_bytes))],
              left |-> SubSeq(left, roll_bytes + 1, Len(left))]
    ELSE [c |-> c, left |-> left]

\* chunk_end, "ignore edges in bytes that are smaller than min_size": the chunker
\* and what is left of the buffer
SkipMin(c, left) ==
    IF c.current_chunk_size < c.min_size
    THEN LET roll_bytes == Min(c.min_size - c.current_chunk_size, Len(left))
         IN  [c    |-> [c EXCEPT !.gear = Roll(c.gear, SubSeq(left, 1, roll_bytes)),
                                 !.current_chunk_size = @ + roll_bytes],
              left |-> SubSeq(left, roll_bytes + 1, Len(left))]
    ELSE [c |-> c, left |-> left]

\* roll_bytes with no limit but the end of the buffer
RollBytesNoLimit(c, left, limit) == Len(left)

\* let roll_bytes = cmp::min(limit - self.current_chunk_size, left.len())
RollBytes(c, left, limit) == Min(limit - c.current_chunk_size, Len(left))

\* FindPhaseResult with current_chunk_size left as it was when no edge is found
FindPhaseResultNoCarry(c, left, roll_bytes, result, whole_len) ==
    IF result.ret.some
    THEN [c    |-> FastCDCReset([c EXCEPT !.gear = result.eng]),
          left |-> left,
          ret  |-> Some(result.ret.val + (whole_len - Len(left)))]
    ELSE [c    |-> [c EXCEPT !.gear = result.eng],
          left |-> SubSeq(left, roll_bytes + 1, Len(left)),
          ret  |-> None]

\* FindPhaseResult counting all of left when no edge is found
FindPhaseResultCountLeft(c, left, roll_bytes, result, whole_len) ==
    IF result.ret.some
    THEN [c    |-> FastCDCReset([c EXCEPT !.gear = result.eng]),
          left |-> left,
          ret  |-> Some(result.ret.val + (whole_len - Len(left)))]
    ELSE [c    |-> [c EXCEPT !.gear = result.eng,
                             !.current_chunk_size = @ + Len(left)],
          left |-> SubSeq(left, roll_bytes + 1, Len(left)),
          ret  |-> None]

\* what a phase of chunk_end does with result, the return of find_chunk_edge_cond
\* on the first roll_bytes bytes of left: reset and return the edge, or count the
\* bytes and go on after them
FindPhaseResult(c, left, roll_bytes, result, whole_len) ==
    IF result.ret.some
    THEN [c    |-> FastCDCReset([c EXCEPT !.gear = result.eng]),
          left |-> left,
          ret  |-> Some(result.ret.val + (whole_len - Len(left)))]
    ELSE [c    |-> [c EXCEPT !.gear = result.eng,
                             !.current_chunk_size = @ + roll_bytes],
          left |-> SubSeq(left, roll_bytes + 1, Len(left)),
          ret  |-> None]

\* chunk_end, "roll through early bytes with smaller probability" (limit avg_size,
\* mask mask_short) and "roll through late bytes with higher probability" (limit
\* max_size, mask mask_long): the chunker, what is left, and the edge if one is found
FindPhase(c, left, limit, mask, whole_len) ==
    IF c.current_chunk_size < limit
    THEN CHOOSE r \in {FindPhaseResult(c, left, RollBytes(c, left, limit), result,
                                       whole_len) :
                          result \in {FindChunkEdgeCond(
                                          c.gear,
                                          SubSeq(left, 1, RollBytes(c, left, limit)),
                                          [mask |-> mask, val |-> Zero64])}} : TRUE
    ELSE [c |-> c, left |-> left, ret |-> None]

\* ChunkEndLate without the hard cap
ChunkEndLateNoCap(c, late, whole_len) ==
    IF late.ret.some THEN [eng |-> late.c, ret |-> late.ret]
    ELSE [eng |-> late.c, ret |-> None]

\* chunk_end after its late phase: the edge found, the hard cap at max_size, or None
ChunkEndLate(c, late, whole_len) ==
    IF late.ret.some THEN [eng |-> late.c, ret |-> late.ret]
    ELSE IF late.c.current_chunk_size >= c.max_size
    THEN [eng |-> FastCDCReset(late.c), ret |-> Some(whole_len - Len(late.left))]
    ELSE [eng |-> late.c, ret |-> None]

\* chunk_end after its early phase: the edge found, or the late phase
ChunkEndEarly(c, early, whole_len) ==
    IF early.ret.some THEN [eng |-> early.c, ret |-> early.ret]
    ELSE CHOOSE r \in {ChunkEndLate(c, late, whole_len) :
                          late \in {FindPhase(early.c, early.left, c.max_size,
                                              c.mask_long, whole_len)}} : TRUE

\* ChunkEndSkipped with mask_long in the early phase
ChunkEndSkippedLongMask(c, skipped, whole_len) ==
    ChunkEndEarly(c, FindPhase(skipped.c, skipped.left, c.avg_size, c.mask_long,
                               whole_len), whole_len)

\* chunk_end after the bytes below min_size: the early phase
ChunkEndSkipped(c, skipped, whole_len) ==
    CHOOSE r \in {ChunkEndEarly(c, early, whole_len) :
                     early \in {FindPhase(skipped.c, skipped.left, c.avg_size,
                                          c.mask_short, whole_len)}} : TRUE

\* FastCDC::chunk_end
FastCDCChunkEnd(c, whole_buf) ==
    CHOOSE r \in {ChunkEndSkipped(c, skipped, Len(whole_buf)) :
                     skipped \in {SkipMin(c, whole_buf)}} : TRUE

---------------------------------------------------------------------------
(* trait Chunker *)

ChunkEnd(c, buf) ==
    IF c.kind = "fastcdc" THEN FastCDCChunkEnd(c, buf)
    ELSE RollingHashChunkerChunkEnd(c, buf)

\* split_at with the byte at chunk_end dropped from the rest
SplitAtSkip(buf, chunk_end) ==
    [chunk |-> SubSeq(buf, 1, chunk_end), rest |-> SubSeq(buf, chunk_end + 2, Len(buf))]

\* buf.split_at(chunk_end) of for_each_chunk_end
SplitAt(buf, chunk_end) ==
    [chunk |-> SubSeq(buf, 1, chunk_end), rest |-> SubSeq(buf, chunk_end + 1, Len(buf))]

RECURSIVE for_each_chunk_end(_, _)

\* an iteration of the loop of for_each_chunk_end, r being what self.chunk_end(buf)
\* returned: the chunks f is called with from here on
ForEachChunk(r, buf) ==
    IF r.ret.some
    THEN <<SplitAt(buf, r.ret.val).chunk>>
         \o for_each_chunk_end(r.eng, SplitAt(buf, r.ret.val).rest)
    ELSE <<>>

\* Chunker::for_each_chunk_end: the chunks f is called with, in order
for_each_chunk_end(c, buf) == ForEachChunk(ChunkEnd(c, buf), buf)

---------------------------------------------------------------------------
(* Inputs *)

\* every byte sequence of length at most n
Seqs(n) == UNION {[1..k -> Bytes] : k \in 0..n}

Rep(b, n) == [i \in 1..n |-> b]

\* what follows the run of a long buffer
Tails == {<<>>, <<255>>, <<0, 1>>}

\* buffers around the engine's window size: a run of one byte and a tail
LongBufs(k) ==
    LET w == IF k = "bup" THEN WINDOW_SIZE ELSE GEAR_WINDOW_SIZE
    IN  {Rep(a, n) \o t : a \in Bytes, n \in (w - 1)..(w + MaxOver), t \in Tails}

Bufs(k) == Seqs(MaxShort) \cup LongBufs(k)

\* n as a value of the engine's digest type
FromInt(k, n) == IF k = "bup" THEN <<n, 0>> ELSE <<n, 0, 0, 0>>

\* digest & 0x0F == 0x0F of the tests, and digest & mask == 0 of the chunkers
Conds(k) ==
    {[mask |-> FromInt(k, 15), val |-> FromInt(k, 15)],
     [mask |-> FromInt(k, 3), val |-> FromInt(k, 0)]}

RECURSIVE Prefixes(_, _, _, _)
\* the engines after roll_byte of buf[lo], of buf[lo..lo+1], ..., of buf[lo..hi]
Prefixes(e, buf, lo, hi) ==
    IF lo > hi THEN <<>>
    ELSE IF lo = hi THEN <<RollByte(e, buf[lo])>>
    ELSE LET mid == (lo + hi) \div 2
             L   == Prefixes(e, buf, lo, mid)
         IN  L \o Prefixes(L[Len(L)], buf, mid + 1, hi)

\* the length of the shortest non-empty prefix of buf after which c holds, 0 if none
FirstMatch(e, buf, c) ==
    LET P == Prefixes(e, buf, 1, Len(buf))
        M == {n \in 1..Len(buf) : Cond(c, P[n])}
    IN  IF M = {} THEN 0 ELSE CHOOSE n \in M : \A m \in M : n <= m

---------------------------------------------------------------------------
(* The engines under their operations.  A behaviour is a call that brings the     *)
(* new engine to some state, a second call, and roll_byte calls after it.         *)

NoCall == [op |-> "new", ret |-> None, first |-> 0, len |-> 0, more |-> 0]

Init ==
    /\ kind \in {"bup", "gear"}
    /\ eng = Default(kind)
    /\ fresh = Default(kind)
    /\ adv = Default(kind)
    /\ last = NoCall
    /\ pc = "new"
    /\ fed = <<>>
    /\ rest = <<>>
    /\ chunks = <<>>

Step == IF pc = "new" THEN "mid" ELSE "done"

DoRollByte ==
    /\ \/ pc \in {"new", "mid"}
       \/ pc = "done" /\ last.more < MaxMore
    /\ \E b \in Bytes :
        /\ eng' = RollByte(eng, b)
        /\ fresh' = RollByte(fresh, b)
        /\ adv' = RollByte(adv, b)
    /\ last' = [last EXCEPT !.more = @ + 1]
    /\ pc' = Step
    /\ UNCHANGED <<kind, fed, rest, chunks>>

DoRoll ==
    /\ pc \in {"new", "mid"}
    /\ \E buf \in Bufs(kind) :
        /\ eng' = Roll(eng, buf)
        /\ fresh' = Roll(fresh, buf)
        /\ adv' = RollDefault(eng, buf)
        /\ last' = [op |-> "roll", ret |-> None, first |-> 0, len |-> Len(buf),
                    more |-> 0]
    /\ pc' = Step
    /\ UNCHANGED <<kind, fed, rest, chunks>>

DoFindChunkEdgeCond ==
    /\ pc \in {"new", "mid"}
    /\ \E buf \in Bufs(kind), c \in Conds(kind) :
        LET r == FindChunkEdgeCond(eng, buf, c)
        IN  /\ eng' = r.eng
            /\ fresh' = FindChunkEdgeCond(fresh, buf, c).eng
            /\ adv' = RollDefault(eng, buf)
            /\ last' = [op |-> "find", ret |-> r.ret, first |-> FirstMatch(eng, buf, c),
                        len |-> Len(buf), more |-> 0]
    /\ pc' = Step
    /\ UNCHANGED <<kind, fed, rest, chunks>>

DoReset ==
    /\ pc \in {"new", "mid"}
    /\ eng' = Reset(eng)
    /\ fresh' = Default(kind)
    /\ adv' = Reset(eng)
    /\ last' = [op |-> "reset", ret |-> None, first |-> 0, len |-> 0, more |-> 0]
    /\ pc' = Step
    /\ UNCHANGED <<kind, fed, rest, chunks>>

Next == DoRollByte \/ DoRoll \/ DoFindChunkEdgeCond \/ DoReset

Spec == Init /\ [][Next]_vars

---------------------------------------------------------------------------
(* The window of an engine: a new engine is fed a run of one byte with roll, as   *)
(* the tests do, and then byte after byte with roll_byte.  Bup is fed every byte  *)
(* sequence, Gear, whose window is 64 bytes long, a second run of one byte.       *)

InitWindow ==
    /\ kind \in {"bup", "gear"}
    /\ \E a \in Bytes, n \in {0, WindowSize(Default(kind)) + MaxOver} :
        /\ eng = Roll(Default(kind), Rep(a, n))
        /\ fed = Rep(a, n)
    /\ fresh = Default(kind)
    /\ adv = Default(kind)
    /\ last = NoCall
    /\ pc = "new"
    /\ rest = <<>>
    /\ chunks = <<>>

\* the bytes fed with roll_byte so far
Rolled == last.more

WindowRollByte ==
    /\ Rolled < WindowSize(eng) + MaxOver + 2
    /\ \E b \in Bytes :
        /\ kind = "gear" /\ Rolled > 0 => b = fed[Len(fed)]
        /\ eng' = RollByte(eng, b)
        /\ fed' = Append(fed, b)
    /\ last' = [last EXCEPT !.more = @ + 1]
    /\ UNCHANGED <<kind, fresh, adv, pc, rest, chunks>>

NextWindow == WindowRollByte

SpecWindow == InitWindow /\ [][NextWindow]_vars

---------------------------------------------------------------------------
(* Chunkers *)

\* the chunk_bits of the FastCDC chunkers of the model: min_size, avg_size and
\* max_size are 1, 4, 32 and 2, 8, 64
ChunkBits == {2, 3}

\* the masks of the RollingHashChunkers of the model
ChunkMasks(k) == {FromInt(k, 1), FromInt(k, 3)}

\* the inputs of a FastCDC chunker: a run, longer than max_size or empty, a tail,
\* and a run of 0xff, longer than avg_size or empty
Streams(c) ==
    {Rep(a, n) \o t \o Rep(255, m) :
        a \in Bytes, n \in {0, c.max_size + MaxOver + 1}, t \in Tails,
        m \in {0, c.avg_size + MaxShort}}

\* the chunkers as constructed
Chunkers(k) ==
    IF k = "fastcdc" THEN {new_with_chunk_bits(cb) : cb \in ChunkBits}
    ELSE {with_mask(Default(k), mask) : mask \in ChunkMasks(k)}

\* the number of bytes in the chunks cut so far
RECURSIVE TotalLen(_)
TotalLen(cs) == IF cs = <<>> THEN 0 ELSE Len(Head(cs)) + TotalLen(Tail(cs))

(* for_each_chunk_end over a whole buffer, an iteration of its loop at a time *)

InitForEach ==
    /\ kind \in {"bup", "gear", "fastcdc"}
    /\ eng \in Chunkers(kind)
    /\ fresh = eng
    /\ adv = eng
    /\ fed \in (IF kind = "fastcdc" THEN Streams(eng) ELSE Seqs(MaxBuf))
    /\ rest = fed
    /\ chunks = <<>>
    /\ last = NoCall
    /\ pc = "loop"

\* while let Some(chunk_end) = self.chunk_end(buf) { split_at; f(chunk); buf = rest }
ForEachStep ==
    /\ pc = "loop"
    /\ \E r \in {ChunkEnd(eng, rest)} :
           /\ eng' = r.eng
           /\ last' = [op |-> "chunk_end", ret |-> r.ret, first |-> 0,
                       len |-> Len(rest), more |-> 0]
           /\ IF r.ret.some
              THEN /\ chunks' = Append(chunks, SplitAt(rest, r.ret.val).chunk)
                   /\ rest' = SplitAt(rest, r.ret.val).rest
                   /\ pc' = "loop"
              ELSE /\ pc' = "done"
                   /\ UNCHANGED <<rest, chunks>>
    /\ UNCHANGED <<kind, fresh, adv, fed>>

NextForEach == ForEachStep

SpecForEach == InitForEach /\ [][NextForEach]_vars

(* FastCDC fed a stream in slices of the caller's choice: after None the caller   *)
(* goes on with the bytes after the slice, after Some(n) with the bytes after the *)
(* edge.                                                                          *)

\* the lengths of the slices a caller passes when n bytes are left
SliceLens(n) == {k \in {0, 1, MaxShort + 1, n \div 2, n} : k <= n}

\* the bytes consumed so far
Consumed == Len(fed) - Len(rest)

InitCDC ==
    /\ kind = "fastcdc"
    /\ eng \in Chunkers(kind)
    /\ fresh = eng
    /\ fed \in Streams(eng)
    /\ adv = for_each_chunk_end(eng, fed)
    /\ rest = fed
    /\ chunks = <<>>
    /\ last = NoCall
    /\ pc = "new"

DoChunkEnd ==
    /\ \E k \in SliceLens(Len(rest)) :
        \E r \in {FastCDCChunkEnd(eng, SubSeq(rest, 1, k))} :
            /\ eng' = r.eng
            /\ last' = [op |-> "chunk_end", ret |-> r.ret, first |-> 0, len |-> k,
                        more |-> 0]
            /\ IF r.ret.some
               THEN /\ chunks' = Append(chunks, SubSeq(fed, TotalLen(chunks) + 1,
                                                       Consumed + r.ret.val))
                    /\ rest' = SubSeq(rest, r.ret.val + 1, Len(rest))
               ELSE /\ rest' = SubSeq(rest, k + 1, Len(rest))
                    /\ UNCHANGED chunks
    /\ pc' = "mid"
    /\ UNCHANGED <<kind, fresh, adv, fed>>

NextCDC == DoChunkEnd

SpecCDC == InitCDC /\ [][NextCDC]_vars

---------------------------------------------------------------------------
(* Claims on the engines *)

\* the last call on eng was find_chunk_edge_cond, and nothing was fed since
JustFound == last.op = "find" /\ last.more = 0

\* C2: when find_chunk_edge_cond finds an edge, the engine is reset before it
\* returns: right after a Some(n) result the digest is that of a new engine.
C2_ResetOnEdge ==
    JustFound /\ last.ret.some => Digest(eng) = Digest(Default(kind))

\* C3: find_chunk_edge_cond returns Some(n) only with 1 <= n <= len(buf), and n is
\* the first match: the predicate holds after roll_byte of buf[0..n] and after no
\* shorter non-empty prefix.
C3_FirstMatch ==
    last.op = "find" /\ last.ret.some =>
        /\ 1 <= last.ret.val
        /\ last.ret.val <= last.len
        /\ last.ret.val = last.first

\* an edge found by Bup's fused loop, past the first window
C3_Witness ==
    /\ kind = "bup"
    /\ JustFound
    /\ last.ret.some
    /\ last.ret.val > WINDOW_SIZE
    /\ last.ret.val < last.len

\* C4: when find_chunk_edge_cond exhausts buf it returns None and leaves the engine
\* advanced, not reset: its digest, now and after further roll_byte calls, is that
\* of the engine it was, fed every byte of buf with roll_byte.
C4_NoneAdvances ==
    last.op = "find" /\ ~last.ret.some => Digest(eng) = Digest(adv)

\* Bup's fused loop ran to the end of the buffer, and a byte was rolled after it
C4_Witness ==
    /\ kind = "bup"
    /\ last.op = "find"
    /\ ~last.ret.some
    /\ last.len > WINDOW_SIZE + 1
    /\ pc = "done"
    /\ last.more > 0
    /\ Digest(eng) # Digest(Default(kind))

\* C5: roll(bytes) is roll_byte on each byte in order: from any engine state, the
\* digest after roll, and after what is rolled next, is the byte-by-byte digest.
C5_RollIsRollByte ==
    last.op = "roll" => Digest(eng) = Digest(adv)

\* Gear rolled a buffer longer than its window in its second call, then a byte
C5_Witness ==
    /\ kind = "gear"
    /\ pc = "done"
    /\ last.op = "roll"
    /\ last.len > GEAR_WINDOW_SIZE
    /\ last.more > 0

\* C6: reset() and then a byte sequence gives the digest of a new engine fed that
\* sequence; right after reset() the digest is that of a new engine.
C6_ResetEquivalence ==
    /\ Digest(eng) = Digest(fresh)
    /\ last.op = "reset" /\ last.more = 0 => Digest(eng) = Digest(Default(kind))

\* a reset of an engine that had been fed, and a byte rolled after it
C6_Witness ==
    /\ pc = "done"
    /\ last.op = "reset"
    /\ last.more > 0
    /\ Digest(eng) # Digest(Default(kind))

---------------------------------------------------------------------------
(* Claims on the window *)

\* the last n bytes of s
Suffix(s, n) == SubSeq(s, Len(s) - n + 1, Len(s))

\* C7: for a new Bup engine the digest after a buffer, fed by roll_byte or by roll,
\* is the digest after any suffix of the buffer longer than the window.
C7_BupWindowLocality ==
    kind = "bup" =>
        \A n \in (WINDOW_SIZE + 1)..Len(fed) :
            /\ Digest(eng) = Digest(RollDefault(BupDefault, Suffix(fed, n)))
            /\ Digest(eng) = Digest(Roll(BupDefault, Suffix(fed, n)))

\* a buffer two bytes longer than the window whose first bytes differ from its last
C7_Witness ==
    /\ kind = "bup"
    /\ Len(fed) = WINDOW_SIZE + 2
    /\ fed[1] = 255
    /\ fed[2] = 1
    /\ fed[Len(fed)] = 0
    /\ Rolled = Len(fed)

\* C8: the Gear digest after at least 64 roll_byte calls is a function of the last
\* 64 bytes fed: an engine fed zero bytes and then 64 bytes of 0x01 has the digest
\* of a stream of 0x01 alone.
C8_GearWindow ==
    kind = "gear" /\ Len(fed) >= GEAR_WINDOW_SIZE =>
        Digest(eng) = Digest(RollDefault(GearDefault, Suffix(fed, GEAR_WINDOW_SIZE)))

\* zero bytes, then exactly 64 bytes of 0x01
C8_Witness ==
    /\ kind = "gear"
    /\ Rolled = GEAR_WINDOW_SIZE
    /\ Len(fed) > GEAR_WINDOW_SIZE
    /\ fed[1] = 0
    /\ fed[Len(fed)] = 1
    /\ Digest(eng) = Digest(RollDefault(GearDefault, Rep(1, GEAR_WINDOW_SIZE + 1)))

---------------------------------------------------------------------------
(* Claims on the chunkers *)

\* C1: every boundary FastCDC's chunk_end emits, whatever the slicing, closes a
\* chunk of length L, the bytes since the last boundary or construction, with
\* min_size <= L <= max_size.
C1_SizeBound ==
    \A i \in 1..Len(chunks) :
        /\ eng.min_size <= Len(chunks[i])
        /\ Len(chunks[i]) <= eng.max_size

\* a chunk closed by the hard cap and one closed before avg_size, the last of the
\* chunks closed by a call with a slice shorter than it
C1_Witness ==
    /\ \E i \in 1..Len(chunks) : Len(chunks[i]) = eng.max_size
    /\ \E i \in 1..Len(chunks) : Len(chunks[i]) < eng.avg_size
    /\ last.ret.some
    /\ last.len < Len(chunks[Len(chunks)])

\* the chunks of ws that end within the first n bytes
RECURSIVE EndingBy(_, _)
EndingBy(ws, n) ==
    IF ws = <<>> \/ Len(Head(ws)) > n THEN <<>>
    ELSE <<Head(ws)>> \o EndingBy(Tail(ws), n - Len(Head(ws)))

\* flatten
RECURSIVE Concat(_)
Concat(cs) == IF cs = <<>> THEN <<>> ELSE Head(cs) \o Concat(Tail(cs))

\* C9: for_each_chunk_end passes the callback consecutive slices of the buffer from
\* offset 0 on: the chunks in order, and then the remainder never emitted, are the
\* buffer, and every returned offset lies within the buffer it was returned for.
C9_RoundTrip ==
    /\ Concat(chunks) \o rest = fed
    /\ last.ret.some => 1 <= last.ret.val /\ last.ret.val <= last.len

\* a RollingHashChunker on Bup that cut two chunks or more and left a remainder
C9_Witness ==
    /\ kind = "bup"
    /\ pc = "done"
    /\ Len(chunks) >= 2
    /\ rest # <<>>
    /\ \E i \in 1..Len(chunks) : Len(chunks[i]) > WINDOW_SIZE

\* C10: the chunks FastCDC cuts from a stream passed in slices, 1-byte and empty
\* ones among them, are the chunks it cuts from the stream passed as one buffer;
\* after None, current_chunk_size and the gear digest are those of the bytes since
\* the last boundary.
C10_Resumable ==
    /\ chunks = EndingBy(adv, Consumed)
    /\ eng.current_chunk_size = Consumed - TotalLen(chunks)
    /\ GearDigest(eng.gear) =
           GearDigest(RollDefault(GearDefault,
                                  SubSeq(fed, TotalLen(chunks) + 1, Consumed)))

\* the whole stream was passed, its last byte in a slice of one, three chunks or
\* more were cut and bytes of a next chunk carry over
C10_Witness ==
    /\ kind = "fastcdc"
    /\ pc = "mid"
    /\ rest = <<>>
    /\ last.len = 1
    /\ ~last.ret.some
    /\ Len(chunks) >= 3
    /\ eng.current_chunk_size > eng.min_size

---------------------------------------------------------------------------
(* Claims on RollingHashChunker *)

\* the predicate RollingHashChunker::chunk_end passes: digest & mask == 0
MaskCond(c) == [mask |-> c.mask, val |-> DigestDefault(c.rh)]

\* C11: RollingHashChunker::chunk_end(buf) returns what find_chunk_edge_cond
\* returns for digest & mask == 0, the first match in buf or None; after Some the
\* engine is as constructed, after None it is the engine fed all of buf.
C11_Delegates ==
    [][kind # "fastcdc" =>
          /\ last'.ret = (IF FirstMatch(eng.rh, rest, MaskCond(eng)) = 0 THEN None
                          ELSE Some(FirstMatch(eng.rh, rest, MaskCond(eng))))
          /\ last'.ret.some => eng' = fresh
          /\ ~last'.ret.some =>
                 Digest(eng'.rh) = Digest(RollDefault(eng.rh, rest))]_vars

\* a second chunk cut by a RollingHashChunker on Bup, longer than a byte
C11_Witness ==
    /\ kind = "bup"
    /\ last.ret.some
    /\ last.ret.val > 1
    /\ Len(chunks) = 2
    /\ eng = fresh

---------------------------------------------------------------------------
(* count_bits over its inputs *)

\* the digests of the tests, and digests with ones in the high limb
CountDigests ==
    {U32(0, 1), U32(0, 3), U32(0, 5), U32(0, 7), U32(\hFFFF, \hFFFF), U32(0, \h005F),
     U32(0, \h02DF), U32(0, 0), U32(\h8000, 0), U32(\hFFFF, 0), U32(\h0001, \hFFFF),
     U32(\h5555, \h5555)}

InitCountBits ==
    /\ kind = "count_bits"
    /\ eng \in [chunk_bits : 0..MaxCountBits, digest : CountDigests,
                overflow_checks : BOOLEAN]
    /\ fresh = eng
    /\ adv = eng
    /\ last = NoCall
    /\ pc = "new"
    /\ fed = <<>>
    /\ rest = <<>>
    /\ chunks = <<>>

DoCountBits ==
    /\ pc = "new"
    /\ last' = [op |-> "count_bits",
                ret |-> count_bits(eng.chunk_bits, eng.digest, eng.overflow_checks),
                first |-> 0, len |-> 0, more |-> 0]
    /\ pc' = "done"
    /\ UNCHANGED <<kind, eng, fresh, adv, fed, rest, chunks>>

NextCountBits == DoCountBits

SpecCountBits == InitCountBits /\ [][NextCountBits]_vars

\* bit i of a u32, 0 from bit 32 on
Bit(d, i) == IF i >= DIGEST_BITS THEN 0 ELSE (d[(i \div 16) + 1] \div (2 ^ (i % 16))) % 2

RECURSIVE OnesFrom(_, _)
\* the number of consecutive one-bits of d from bit position p on
OnesFrom(d, p) == IF Bit(d, p) = 0 THEN 0 ELSE 1 + OnesFrom(d, p + 1)

\* the values the tests assert: chunk_bits, digest, count_bits
Golden ==
    {<<1, U32(0, 1), 1>>, <<1, U32(0, 3), 1>>, <<1, U32(0, 5), 2>>, <<1, U32(0, 7), 2>>,
     <<1, U32(\hFFFF, \hFFFF), 31>>, <<5, U32(0, \h005F), 6>>, <<5, U32(0, \h02DF), 7>>,
     <<5, U32(\hFFFF, \hFFFF), 31>>}

\* what the claim says count_bits returned
CountBitsAsClaimed ==
    /\ ~last.ret.panic
    /\ last.ret.val = eng.chunk_bits + OnesFrom(eng.digest, eng.chunk_bits + 1)
    /\ \A g \in Golden :
           eng.chunk_bits = g[1] /\ eng.digest = g[2] => last.ret.val = g[3]

\* C12: count_bits(chunk_bits, digest) is chunk_bits plus the number of consecutive
\* one-bits of the digest from bit position chunk_bits + 1 on, bit chunk_bits
\* skipped, with the values of the tests, for every chunk_bits.
C12_CountBits == last.op = "count_bits" => CountBitsAsClaimed

\* C12, for the chunk_bits below the width of the digest: there it holds.
C12_BelowWidth ==
    last.op = "count_bits" /\ eng.chunk_bits < DIGEST_BITS => CountBitsAsClaimed

\* count_bits(5, 0b1011011111) returned 7: bit 5 is skipped, bits 6 and 7 count
C12_Witness ==
    /\ last.op = "count_bits"
    /\ eng.chunk_bits = 5
    /\ eng.digest = U32(0, \h02DF)
    /\ last.ret = Returned(7)

---------------------------------------------------------------------------
(* Every chunker fed its input in slices of the caller's choice *)

DoSlice ==
    /\ \E k \in SliceLens(Len(rest)) :
        \E r \in {ChunkEnd(eng, SubSeq(rest, 1, k))} :
            /\ eng' = r.eng
            /\ last' = [op |-> "chunk_end", ret |-> r.ret, first |-> 0, len |-> k,
                        more |-> 0]
            /\ IF r.ret.some
               THEN /\ chunks' = Append(chunks, SubSeq(fed, TotalLen(chunks) + 1,
                                                       Consumed + r.ret.val))
                    /\ rest' = SubSeq(rest, r.ret.val + 1, Len(rest))
               ELSE /\ rest' = SubSeq(rest, k + 1, Len(rest))
                    /\ UNCHANGED chunks
    /\ pc' = "mid"
    /\ UNCHANGED <<kind, fresh, adv, fed>>

NextSlices == DoSlice

SpecSlices == InitForEach /\ [][NextSlices]_vars

\* the rolling hash engine of a chunker
EngineOf(c) == IF c.kind = "fastcdc" THEN c.gear ELSE c.rh

\* C13: when chunk_end(buf) returns None all of buf went into the current chunk:
\* the engine is the engine fed every byte of buf, and FastCDC's current_chunk_size
\* has grown by len(buf).  When it returns Some(n), n <= len(buf), and the result
\* and the chunker are those of the call with the first n bytes of buf alone.
C13_ConsumesAll ==
    [][LET buf == SubSeq(rest, 1, last'.len)
       IN  IF last'.ret.some
           THEN /\ last'.ret.val <= Len(buf)
                /\ ChunkEnd(eng, SubSeq(buf, 1, last'.ret.val)) =
                       [eng |-> eng', ret |-> last'.ret]
           ELSE /\ Digest(EngineOf(eng')) = Digest(RollDefault(EngineOf(eng), buf))
                /\ kind = "fastcdc" =>
                       eng'.current_chunk_size = eng.current_chunk_size + Len(buf)]_vars

\* FastCDC returned None for a slice that took the chunk from below min_size to
\* above avg_size, after an earlier None
C13_Witness ==
    /\ kind = "fastcdc"
    /\ ~last.ret.some
    /\ last.len > eng.avg_size
    /\ eng.current_chunk_size > last.len
    /\ eng.current_chunk_size - last.len < eng.min_size

---------------------------------------------------------------------------
(* Claims on FastCDC's boundaries *)

\* the bytes of the input from the start of the current chunk on
FromChunkStart == SubSeq(fed, TotalLen(chunks) + 1, Len(fed))

\* the bytes accumulated toward the current chunk
Pending == Consumed - TotalLen(chunks)

\* the lengths L up to hi at which a chunk of c starting with bytes matches a mask:
\* d(L) & mask_short == 0 for min_size < L <= avg_size, d(L) & mask_long == 0 for
\* avg_size < L <= max_size, d(L) the Gear digest of the first L bytes from zero
MaskMatches(c, bytes, hi) ==
    LET n == Min(Len(bytes), Min(hi, c.max_size))
        P == Prefixes(GearDefault, bytes, 1, n)
    IN  {L \in (c.min_size + 1)..n :
            And64(GearDigest(P[L]),
                  IF L <= c.avg_size THEN c.mask_short ELSE c.mask_long) = Zero64}

\* C14: when the bytes of the current chunk reach max_size with no mask match
\* before the max_size-th byte, the call that consumes that byte returns a boundary
\* at it, and the chunk is max_size long; chunk_end never returns None with
\* current_chunk_size >= max_size.
C14_HardCap ==
    [][/\ ~last'.ret.some => eng'.current_chunk_size < eng.max_size
       /\ /\ Pending + last'.len >= eng.max_size
          /\ MaskMatches(eng, FromChunkStart, eng.max_size - 1) = {}
          => /\ last'.ret = Some(eng.max_size - Pending)
             /\ Len(chunks') = Len(chunks) + 1
             /\ Len(chunks'[Len(chunks')]) = eng.max_size]_vars

\* the hard cap closed a chunk begun in an earlier call, in a slice that goes on
\* after the boundary
C14_Witness ==
    /\ kind = "fastcdc"
    /\ last.ret.some
    /\ chunks # <<>>
    /\ Len(chunks[Len(chunks)]) = eng.max_size
    /\ last.ret.val < eng.max_size
    /\ last.ret.val < last.len
    /\ MaskMatches(eng, chunks[Len(chunks)], eng.max_size) = {}

\* the chunk length of the boundary rule for a chunk of c that starts with bytes: the
\* smallest length of MaskMatches, and max_size where there is none
RuleLength(c, bytes) ==
    LET M == MaskMatches(c, bytes, c.max_size)
    IN  IF M = {} THEN c.max_size ELSE CHOOSE L \in M : \A K \in M : L <= K

\* C16: the length L of every chunk FastCDC emits is the smallest L with
\* (min_size < L <= avg_size and d(L) & mask_short == 0) or (avg_size < L <= max_size
\* and d(L) & mask_long == 0) or L == max_size, d(L) the Gear digest of the first L
\* bytes of the chunk from a zero digest; and the bytes taken into a chunk not yet
\* closed hold no such L.
C16_BoundaryRule ==
    /\ \A i \in 1..Len(chunks) : Len(chunks[i]) = RuleLength(eng, chunks[i])
    /\ MaskMatches(eng, SubSeq(FromChunkStart, 1, Pending), eng.max_size) = {}
    /\ Pending < eng.max_size

\* a chunk closed by mask_long above avg_size, by a call that began within it, that
\* holds a shorter length above min_size whose digest matches mask_long and not
\* mask_short; and before it a chunk closed by mask_short
C16_Witness ==
    /\ kind = "fastcdc"
    /\ eng.mask_long # Zero64
    /\ last.ret.some
    /\ last.ret.val < Len(chunks[Len(chunks)])
    /\ Len(chunks[Len(chunks)]) > eng.avg_size
    /\ Len(chunks[Len(chunks)]) < eng.max_size
    /\ \E L \in (eng.min_size + 1)..eng.avg_size :
           And64(GearDigest(RollDefault(GearDefault, SubSeq(chunks[Len(chunks)], 1, L))),
                 eng.mask_long) = Zero64
    /\ \E i \in 1..(Len(chunks) - 1) :
           Len(chunks[i]) > eng.min_size /\ Len(chunks[i]) <= eng.avg_size

\* chunk_end after its early phase, up to the test of the hard cap: the edge found,
\* or the chunker after the late phase
LatePhase(c, early, whole_len) ==
    IF early.ret.some THEN early
    ELSE FindPhase(early.c, early.left, c.max_size, c.mask_long, whole_len)

\* chunk_end(whole_buf) up to the test of the hard cap
AtCap(c, whole_buf) ==
    LatePhase(c, FindPhase(SkipMin(c, whole_buf).c, SkipMin(c, whole_buf).left,
                           c.avg_size, c.mask_short, Len(whole_buf)),
              Len(whole_buf))

\* C19: after construction and after every chunk_end call, whatever the buffers,
\* empty ones among them, current_chunk_size < max_size, so the assertion at the
\* entry of chunk_end holds; and when the branch of the hard cap is taken
\* current_chunk_size is max_size, never more.
C19_BelowMax ==
    [][\A at \in {AtCap(eng, SubSeq(rest, 1, last'.len))} :
          /\ eng.current_chunk_size < eng.max_size
          /\ eng'.current_chunk_size < eng'.max_size
          /\ ~at.ret.some /\ at.c.current_chunk_size >= eng.max_size =>
                 /\ at.c.current_chunk_size = eng.max_size
                 /\ last'.ret = Some(last'.len - Len(at.left))
                 /\ eng'.current_chunk_size = 0]_vars

\* the hard cap taken at the last byte of a slice shorter than max_size - avg_size,
\* so after slices that returned None
C19_Witness ==
    /\ kind = "fastcdc"
    /\ last.ret.some
    /\ last.ret.val = last.len
    /\ last.len < eng.max_size - eng.avg_size
    /\ chunks # <<>>
    /\ Len(chunks[Len(chunks)]) = eng.max_size
    /\ MaskMatches(eng, chunks[Len(chunks)], eng.max_size) = {}
    /\ eng.current_chunk_size = 0

---------------------------------------------------------------------------
(* FastCDC::new_with_chunk_bits over its inputs *)

InitNew ==
    /\ kind = "new"
    /\ eng \in [chunk_bits : 0..MaxChunkBits, overflow_checks : BOOLEAN]
    /\ fresh = eng
    /\ adv = eng
    /\ last = NoCall
    /\ pc = "new"
    /\ fed = <<>>
    /\ rest = <<>>
    /\ chunks = <<>>

DoNew ==
    /\ pc = "new"
    /\ last' = [op |-> "new_with_chunk_bits",
                ret |-> NewWithChunkBits(eng.chunk_bits, eng.overflow_checks),
                first |-> 0, len |-> 0, more |-> 0]
    /\ pc' = "done"
    /\ UNCHANGED <<kind, eng, fresh, adv, fed, rest, chunks>>

NextNew == DoNew

SpecNew == InitNew /\ [][NextNew]_vars

\* new_with_chunk_bits returned a FastCDC
Accepted == last.op = "new_with_chunk_bits" /\ last.ret.outcome = "ok"

\* the sizes the claim gives the FastCDC returned
SizesAsClaimed ==
    /\ last.ret.min_size = Pow2U64(eng.chunk_bits - 2)
    /\ last.ret.avg_size = Pow2U64(eng.chunk_bits)
    /\ last.ret.max_size = Pow2U64(eng.chunk_bits + 3)
    /\ Geq64(last.ret.avg_size, last.ret.min_size)
    /\ Geq64(last.ret.max_size, last.ret.avg_size)
    /\ eng.chunk_bits = 13 =>
           /\ last.ret.min_size = U64(0, 0, 0, 2048)
           /\ last.ret.avg_size = U64(0, 0, 0, 8192)
           /\ last.ret.max_size = U64(0, 0, 1, 0)

---------------------------------------------------------------------------
(* find_chunk_edge_cond beside the loop of the trait: eng is searched with the    *)
(* engine's own find_chunk_edge_cond, adv, from the same state and over the same  *)
(* buffer, with the trait's default; fed holds the buffer, last.first the offset  *)
(* the default returned, 0 for None.  The first call brings the engine to some    *)
(* state, and roll_byte calls follow the search on both engines.                  *)

DoFindBoth ==
    /\ pc \in {"new", "mid"}
    /\ \E buf \in Bufs(kind), c \in Conds(kind) :
        \E r \in {FindChunkEdgeCond(eng, buf, c)},
           n \in {FindChunkEdgeCondDefault(eng, buf, c)} :
            /\ eng' = r.eng
            /\ adv' = n.eng
            /\ fresh' = FindChunkEdgeCond(fresh, buf, c).eng
            /\ fed' = buf
            /\ last' = [op |-> "find", ret |-> r.ret,
                        first |-> IF n.ret.some THEN n.ret.val ELSE 0,
                        len |-> Len(buf), more |-> 0]
    /\ pc' = Step
    /\ UNCHANGED <<kind, rest, chunks>>

NextFind == DoRollByte \/ DoRoll \/ DoFindBoth \/ DoReset

SpecFind == Init /\ [][NextFind]_vars

\* C17: Bup's find_chunk_edge_cond, from any reachable engine and for any buffer
\* and predicate of the digest, returns the Option the trait's default loop
\* returns, and the digests of the two engines agree after the call and after
\* every sequence of roll_byte calls that follows.
C17_BupFindEquivalent ==
    kind = "bup" /\ last.op = "find" =>
        /\ last.ret = (IF last.first = 0 THEN None ELSE Some(last.first))
        /\ \A s \in Seqs(WINDOW_SIZE) :
               Digest(RollDefault(eng, s)) = Digest(RollDefault(adv, s))

\* the fused loop of Bup found an edge short of the end of the buffer and left its
\* cursor where the default loop does not, and a byte was rolled after it
C17_Witness ==
    /\ kind = "bup"
    /\ last.op = "find"
    /\ last.ret.some
    /\ last.ret.val > WINDOW_SIZE
    /\ last.ret.val < last.len
    /\ last.more > 0
    /\ adv.wofs # eng.wofs

---------------------------------------------------------------------------
(* Bup under its operations, with the bytes it was fed: fed holds the bytes the   *)
(* engine took in since its construction or its last reset, in order.             *)

InitCursor ==
    /\ kind = "bup"
    /\ eng = BupDefault
    /\ fresh = BupDefault
    /\ adv = BupDefault
    /\ last = NoCall
    /\ pc = "new"
    /\ fed = <<>>
    /\ rest = <<>>
    /\ chunks = <<>>

CursorRollByte ==
    /\ \/ pc \in {"new", "mid"}
       \/ pc = "done" /\ last.more < MaxMore
    /\ \E b \in Bytes :
        /\ eng' = BupRollByte(eng, b)
        /\ fed' = Append(fed, b)
    /\ last' = [last EXCEPT !.more = @ + 1]
    /\ pc' = Step
    /\ UNCHANGED <<kind, fresh, adv, rest, chunks>>

CursorRoll ==
    /\ pc \in {"new", "mid"}
    /\ \E buf \in Bufs(kind) :
        /\ eng' = Roll(eng, buf)
        /\ fed' = fed \o buf
        /\ last' = [op |-> "roll", ret |-> None, first |-> 0, len |-> Len(buf),
                    more |-> 0]
    /\ pc' = Step
    /\ UNCHANGED <<kind, fresh, adv, rest, chunks>>

CursorFind ==
    /\ pc \in {"new", "mid"}
    /\ \E buf \in Bufs(kind), c \in Conds(kind) :
        \E r \in {BupFindChunkEdgeCond(eng, buf, c)} :
            /\ eng' = r.eng
            /\ fed' = fed \o (IF r.ret.some THEN SubSeq(buf, 1, r.ret.val) ELSE buf)
            /\ last' = [op |-> "find", ret |-> r.ret, first |-> 0, len |-> Len(buf),
                        more |-> 0]
    /\ pc' = Step
    /\ UNCHANGED <<kind, fresh, adv, rest, chunks>>

CursorReset ==
    /\ pc \in {"new", "mid"}
    /\ eng' = BupReset(eng)
    /\ fed' = <<>>
    /\ last' = [op |-> "reset", ret |-> None, first |-> 0, len |-> 0, more |-> 0]
    /\ pc' = Step
    /\ UNCHANGED <<kind, fresh, adv, rest, chunks>>

NextCursor == CursorRollByte \/ CursorRoll \/ CursorFind \/ CursorReset

SpecCursor == InitCursor /\ [][NextCursor]_vars

\* the window of e read from its cursor on, wrapping at its end
LogicalWindow(e) ==
    [i \in 1..WINDOW_SIZE |-> e.window[((e.wofs + i - 1) % WINDOW_SIZE) + 1]]

\* C18: in every state Bup reaches through construction, roll_byte, roll,
\* find_chunk_edge_cond and reset, 0 <= wofs < WINDOW_SIZE, and the byte at wofs is
\* the oldest byte of the window: read from wofs on, the window is the last
\* WINDOW_SIZE bytes fed, oldest first, zeros before the first byte fed.
C18_CursorInRange ==
    /\ eng.wofs \in 0..(WINDOW_SIZE - 1)
    /\ LogicalWindow(eng) = Suffix(Rep(0, WINDOW_SIZE) \o fed, WINDOW_SIZE)

\* a roll_byte after a search that ran through the fused loop and after a first
\* call that left the cursor within the window: the cursor is at 1 and the byte
\* there, the oldest, differs from the newest
C18_Witness ==
    /\ pc = "done"
    /\ last.op = "find"
    /\ last.len > WINDOW_SIZE
    /\ Len(fed) > last.len + 1
    /\ last.more = 1
    /\ eng.wofs = 1
    /\ eng.window[2] # eng.window[1]
    /\ eng.window[2] = fed[Len(fed) - WINDOW_SIZE + 1]

---------------------------------------------------------------------------
(* for_each_chunk_end as a loop that keeps running: an iteration that can be     *)
(* taken is taken.                                                               *)

FairForEach == SpecForEach /\ WF_vars(NextForEach)

\* C20: for_each_chunk_end terminates on every finite buffer, for
\* RollingHashChunker and for FastCDC: chunk_end never returns Some(0), every
\* boundary found consumes at least one byte of the buffer passed to the call, and
\* chunk_end on an empty buffer returns None.
C20_Terminates ==
    /\ <>(pc = "done")
    /\ [](last.op = "chunk_end" /\ last.ret.some => last.ret.val >= 1)
    /\ [](last.op = "chunk_end" /\ last.len = 0 => ~last.ret.some)
    /\ [][pc' = "loop" => Len(rest') < Len(rest)]_vars

\* the loop of a FastCDC ended by chunk_end on an empty buffer, after two chunks
\* or more
C20_Witness ==
    /\ kind = "fastcdc"
    /\ pc = "done"
    /\ last.op = "chunk_end"
    /\ last.len = 0
    /\ ~last.ret.some
    /\ Len(chunks) >= 2
    /\ fed # <<>>

---------------------------------------------------------------------------
(* Engines and chunkers under their calls, empty buffers among the buffers: an    *)
(* engine under roll_byte, roll, find_chunk_edge_cond and reset, a chunker fed    *)
(* its input in slices.                                                           *)

IsEngine == eng.kind \in {"bup", "gear"}

CallRollByte == IsEngine /\ DoRollByte

CallRoll == IsEngine /\ DoRoll

CallFindChunkEdgeCond == IsEngine /\ DoFindChunkEdgeCond

CallReset == IsEngine /\ DoReset

CallChunkEnd == ~IsEngine /\ DoSlice

InitCalls == Init \/ InitForEach

NextCalls ==
    CallRollByte \/ CallRoll \/ CallFindChunkEdgeCond \/ CallReset \/ CallChunkEnd

SpecCalls == InitCalls /\ [][NextCalls]_vars

\* the calls of cond in the trait's find_chunk_edge_cond: one after each roll_byte,
\* the last of them the call that returned true
DefaultCondCalls(e, buf, c) ==
    LET r == FindChunkEdgeCondDefault(e, buf, c)
    IN  IF r.ret.some THEN r.ret.val ELSE Len(buf)

\* the calls of cond in Bup::find_chunk_edge_cond: one for each byte of the first
\* window and one for each window of WINDOW_SIZE + 1 bytes, up to the call that
\* returned true
BupCondCalls(e, buf, c) ==
    LET first_window == FirstWindow(WINDOW_SIZE, buf)
        r == FindRange(e, buf, 1, Len(first_window), c)
        f == BupFusedRange(r.eng, buf, 0, Len(buf) - WINDOW_SIZE - 1, c)
    IN  IF r.ret.some THEN r.ret.val
        ELSE IF Len(buf) > WINDOW_SIZE
        THEN Len(first_window)
                 + (IF f.ret.some THEN f.ret.val + 1 ELSE Len(buf) - WINDOW_SIZE)
        ELSE Len(first_window)

CondCalls(e, buf, c) ==
    IF e.kind = "bup" THEN BupCondCalls(e, buf, c) ELSE DefaultCondCalls(e, buf, c)

\* the calls of the closure in a phase of FastCDC::chunk_end
PhaseCondCalls(c, left, limit, mask) ==
    IF c.current_chunk_size < limit
    THEN CondCalls(c.gear, SubSeq(left, 1, RollBytes(c, left, limit)),
                   [mask |-> mask, val |-> Zero64])
    ELSE 0

\* the calls of the closures in FastCDC::chunk_end: those of the early phase and,
\* when it found no edge, those of the late phase
FastCDCCondCalls(c, whole_buf) ==
    LET skipped == SkipMin(c, whole_buf)
        early   == FindPhase(skipped.c, skipped.left, c.avg_size, c.mask_short,
                             Len(whole_buf))
    IN  PhaseCondCalls(skipped.c, skipped.left, c.avg_size, c.mask_short)
            + (IF early.ret.some THEN 0
               ELSE PhaseCondCalls(early.c, early.left, c.max_size, c.mask_long))

\* the calls of the closure in a chunker's chunk_end
ChunkEndCondCalls(c, buf) ==
    IF c.kind = "fastcdc" THEN FastCDCCondCalls(c, buf)
    ELSE CondCalls(c.rh, buf, MaskCond(c))

\* the call that made this step was roll, find_chunk_edge_cond or chunk_end on an
\* empty buffer
EmptyCall ==
    /\ last'.op \in {"roll", "find", "chunk_end"}
    /\ last'.len = 0
    /\ last'.more = 0

\* C21: roll(empty) and find_chunk_edge_cond(empty, p) of both engines, and
\* chunk_end(empty) of both chunkers, return None where a result is returned,
\* never call the predicate, trip no debug assertion, and leave the whole state of
\* the engine or chunker (digest, window, cursor, current_chunk_size) as it was.
C21_EmptyIsNoOp ==
    [][EmptyCall =>
          /\ eng' = eng
          /\ ~last'.ret.some
          /\ last'.op = "find" => \A c \in Conds(kind) : CondCalls(eng, <<>>, c) = 0
          /\ last'.op = "chunk_end" => ChunkEndCondCalls(eng, <<>>) = 0
          /\ kind = "fastcdc" => eng.current_chunk_size < eng.max_size]_vars

\* chunk_end on an empty slice by a FastCDC that is past min_size within its
\* second chunk
C21_Witness ==
    /\ kind = "fastcdc"
    /\ last.op = "chunk_end"
    /\ last.len = 0
    /\ ~last.ret.some
    /\ Len(chunks) >= 1
    /\ eng.current_chunk_size > eng.min_size
    /\ eng.gear.digest # Zero64

---------------------------------------------------------------------------
(* The sums of Bup and the calls of add *)

\* a call of add: the engine it is made on and its arguments
AddCall(e, drop, add) == [e |-> e, drop |-> drop, add |-> add]

RECURSIVE RollAdds(_, _, _, _)
\* the calls of add that roll_byte makes over buf[lo..hi] (counted from 1), in order
RollAdds(e, buf, lo, hi) ==
    IF lo > hi THEN <<>>
    ELSE <<AddCall(e, e.window[e.wofs + 1], buf[lo])>>
             \o RollAdds(BupRollByte(e, buf[lo]), buf, lo + 1, hi)

RECURSIVE FusedAdds(_, _, _, _)
\* the calls of add in the loop over buf.windows(WINDOW_SIZE + 1), for the windows
\* lo..hi (from 0): drop is the first byte of the window, add its last
FusedAdds(e, buf, lo, hi) ==
    IF lo > hi THEN <<>>
    ELSE <<AddCall(e, buf[lo + 1], buf[lo + WINDOW_SIZE + 1])>>
             \o FusedAdds(BupAdd(e, buf[lo + 1], buf[lo + WINDOW_SIZE + 1]), buf,
                          lo + 1, hi)

\* the calls of add that Bup::roll makes
BupRollAdds(e, buf) ==
    RollAdds(e, LastWindow(WINDOW_SIZE, buf), 1, Len(LastWindow(WINDOW_SIZE, buf)))

\* the calls of add that Bup::find_chunk_edge_cond makes: those of roll_byte over
\* the first window, then those of the fused loop, up to the edge
BupFindAdds(e, buf, c) ==
    LET n == Len(FirstWindow(WINDOW_SIZE, buf))
        r == FindRange(e, buf, 1, n, c)
        f == BupFusedRange(r.eng, buf, 0, Len(buf) - WINDOW_SIZE - 1, c)
    IN  IF r.ret.some THEN RollAdds(e, buf, 1, r.ret.val)
        ELSE IF Len(buf) > WINDOW_SIZE
        THEN RollAdds(e, buf, 1, n)
                 \o FusedAdds(r.eng, buf, 0,
                              IF f.ret.some THEN f.ret.val
                              ELSE Len(buf) - WINDOW_SIZE - 1)
        ELSE RollAdds(e, buf, 1, n)

\* buffers a byte longer than a window of the fused loop, of bytes that differ
\* from their neighbours
MixedBufs == [1..(WINDOW_SIZE + 2) -> {1, 255}]

SumBufs == Bufs("bup") \cup MixedBufs

SumsFind ==
    /\ pc \in {"new", "mid"}
    /\ \E buf \in SumBufs, c \in Conds(kind) :
        \E r \in {BupFindChunkEdgeCond(eng, buf, c)} :
            /\ eng' = r.eng
            /\ fed' = fed \o (IF r.ret.some THEN SubSeq(buf, 1, r.ret.val) ELSE buf)
            /\ last' = [op |-> "find", ret |-> r.ret, first |-> 0, len |-> Len(buf),
                        more |-> 0]
    /\ pc' = Step
    /\ UNCHANGED <<kind, fresh, adv, rest, chunks>>

NextSums == CursorRollByte \/ CursorRoll \/ SumsFind \/ CursorReset

SpecSums == InitCursor /\ [][NextSums]_vars

RECURSIVE SumOf(_)
SumOf(s) == IF s = <<>> THEN 0 ELSE Head(s) + SumOf(Tail(s))

\* neither s1 -= drop nor s2 -= WINDOW_SIZE * (drop + CHAR_OFFSET) goes below zero
\* in this call of add
NoUnderflow(call) ==
    /\ call.e.s1 + call.add >= call.drop
    /\ call.e.s2 + (call.e.s1 + call.add - call.drop)
           >= WINDOW_SIZE * (call.drop + CHAR_OFFSET)

\* each call drops the oldest byte of the window: the window is w, oldest byte
\* first, before the first call, and each call shifts in the byte it adds
DropsOldest(w, calls) ==
    \A k \in 1..Len(calls) :
        calls[k].drop = (w \o [i \in 1..(k - 1) |-> calls[i].add])[k]

AddsAsClaimed(e, calls) ==
    /\ DropsOldest(LogicalWindow(e), calls)
    /\ \A k \in 1..Len(calls) : NoUnderflow(calls[k])

\* a predicate that never holds
Never == [mask |-> <<0, 0>>, val |-> <<1, 0>>]

\* the bytes the call of this step fed the engine
StepBytes == SubSeq(fed', Len(fed) + 1, Len(fed'))

\* the calls of add made in this step.  A search holds its predicate at the last
\* byte it takes at the earliest, so its calls of add are those of a search that
\* finds no edge in the bytes it took.
StepAdds ==
    IF last'.more > 0 THEN RollAdds(eng, StepBytes, 1, 1)
    ELSE IF last'.op = "roll" THEN BupRollAdds(eng, StepBytes)
    ELSE IF last'.op = "find" THEN BupFindAdds(eng, StepBytes, Never)
    ELSE <<>>

SumInvariant(e) == e.s1 = WINDOW_SIZE * CHAR_OFFSET + SumOf(e.window)

\* C22: between the operations of Bup, s1 = WINDOW_SIZE * CHAR_OFFSET + the sum
\* of the bytes in the window, and every call of add that roll_byte, roll and
\* find_chunk_edge_cond make, in the first window and in the fused loop, drops the
\* oldest byte of the window, so that neither subtraction of add goes below zero.
C22_Accumulator ==
    [][/\ SumInvariant(eng)
       /\ SumInvariant(eng')
       /\ AddsAsClaimed(eng, StepAdds)]_vars

\* a search that found its edge in the second window of the fused loop, which
\* had dropped two bytes that differ, after a first call had fed the engine: the
\* window was copied back, and s1 is the sum over it
C22_Witness ==
    /\ pc = "done"
    /\ last.op = "find"
    /\ last.more = 0
    /\ last.ret = Some(WINDOW_SIZE + 2)
    /\ Len(fed) > WINDOW_SIZE + 2
    /\ fed[Len(fed) - WINDOW_SIZE - 1] # fed[Len(fed) - WINDOW_SIZE]
    /\ eng.wofs = 0
    /\ eng.window = Suffix(fed, WINDOW_SIZE)

=============================================================================
